---- MODULE Spec2Model ----
(***************************************************************************)
(* Connection establishment of tokio-tungstenite (src/connect.rs).         *)
(*                                                                         *)
(* Every call of an entry point is an "attempt": one async fn future with  *)
(* its arguments, its locals and its position.  The collaborators are the  *)
(* request conversion (IntoClientRequest), the host extraction (domain),   *)
(* the transport (TcpStream / UnixStream) and the combined TLS + WebSocket *)
(* handshake (crate::tls::client_async_tls_with_config).  Their answers    *)
(* are nondeterministic; what the core does with them is the code's.       *)
(***************************************************************************)
EXTENDS Naturals, Sequences, FiniteSets

\* Number of attempts (calls of an entry point) of the model.
NumAttempts == 2

Attempts == 1..NumAttempts

\* Option<T>: None is the empty sequence, Some(x) the one-element sequence.
None == <<>>
Some(x) == <<x>>
IsSome(o) == o # None
Unwrap(o) == o[1]

\* connect.rs:46 and connect.rs:47
DefaultWssPort == 443
DefaultWsPort == 80

(***************************************************************************)
(* Inputs.                                                                 *)
(***************************************************************************)
\* uri().scheme_str(): Some("wss"), Some("ws"), Some(other) or None.
Schemes == {Some("ws"), Some("wss"), Some("ftp"), None}
HostNames == {"example.test", "other.test"}
\* uri().port_u16(): an explicit port, or None.
ExplicitPorts == {Some(DefaultWsPort), Some(9001), None}

\* What the caller passes as `request`: something into_client_request()
\* rejects, or something it converts to a request with this URI.  The host and
\* the port both belong to the URI's authority, and a URI with a scheme has
\* an authority: a URI without a host has neither a scheme nor a port.
Malformed == [valid |-> FALSE, scheme |-> None, host |-> None, port |-> None]
NoHostInput == [valid |-> TRUE, scheme |-> None, host |-> None, port |-> None]
Requests ==
    {Malformed, NoHostInput}
    \cup [valid : {TRUE}, scheme : Schemes, host : {Some(h) : h \in HostNames},
          port : ExplicitPorts]

Configs == {None, Some("config")}
Connectors == {None, Some("connector")}
Paths == {"/tmp/sock", "/run/ws.sock"}

NetEntries == {"connect_async", "connect_async_with_config",
               "connect_async_tls_with_config"}
UnixEntries == {"connect_unix_async", "connect_unix_async_with_config"}
Entries == NetEntries \cup UnixEntries

\* The arguments each entry point takes; a parameter an entry point does not
\* have is None / FALSE here and is never read.
InputsOf(e) ==
    CASE e = "connect_async" ->
           [request : Requests, config : {None}, disable_nagle : {FALSE},
            connector : {None}, path : {None}]
      [] e = "connect_async_with_config" ->
           [request : Requests, config : Configs, disable_nagle : BOOLEAN,
            connector : {None}, path : {None}]
      [] e = "connect_async_tls_with_config" ->
           [request : Requests, config : Configs, disable_nagle : BOOLEAN,
            connector : Connectors, path : {None}]
      [] e = "connect_unix_async" ->
           [request : Requests, config : {None}, disable_nagle : {FALSE},
            connector : {None}, path : {Some(p) : p \in Paths}]
      [] e = "connect_unix_async_with_config" ->
           [request : Requests, config : Configs, disable_nagle : {FALSE},
            connector : {None}, path : {Some(p) : p \in Paths}]
      [] OTHER -> {}

NoInput == [request |-> Malformed, config |-> None, disable_nagle |-> FALSE,
            connector |-> None, path |-> None]

VARIABLES
    entry,    \* entry[a]: the entry point the caller called, or "NotCalled"
    input,    \* input[a]: the caller's arguments
    fn,       \* fn[a]: the function whose body the attempt is executing
    pc,       \* pc[a]: the attempt's position
    local,    \* local[a]: parameters and locals of the executing body
    trace,    \* trace[a]: the stages begun, passed and failed, in order
    calls,    \* calls[a]: the collaborator calls made, with their arguments
    result,   \* result[a]: None, or Some(the Result the future resolved to)
    chans     \* the transport's resources, one per dial, in creation order

vars == <<entry, input, fn, pc, local, trace, calls, result, chans>>

NoLocal == [request |-> None, config |-> None, disable_nagle |-> FALSE,
            connector |-> None, domain |-> None, port |-> None,
            addr |-> None, socket |-> None]
NoCalls == [dial |-> <<>>, nodelay |-> <<>>, handshake |-> <<>>, tls |-> <<>>]

\* The state right after the caller created the futures: nothing has run yet
\* (a Rust future does nothing until polled).
InitCommon ==
    /\ fn = entry
    /\ pc = [a \in Attempts |-> IF entry[a] = "NotCalled" THEN "NotCalled" ELSE "Start"]
    /\ local = [a \in Attempts |->
                 [NoLocal EXCEPT !.config = input[a].config,
                                 !.disable_nagle = input[a].disable_nagle,
                                 !.connector = input[a].connector]]
    /\ trace = [a \in Attempts |-> <<>>]
    /\ calls = [a \in Attempts |-> NoCalls]
    /\ result = [a \in Attempts |-> None]
    /\ chans = <<>>

\* One attempt, with every entry point and every argument.
Init ==
    /\ \E e \in Entries : \E i \in InputsOf(e) :
         /\ entry = [a \in Attempts |-> IF a = 1 THEN e ELSE "NotCalled"]
         /\ input = [a \in Attempts |-> IF a = 1 THEN i ELSE NoInput]
    /\ InitCommon

\* Several attempts at once, each any of three calls: a networked one that
\* tunes, a local one, and a networked one that fails in the resolution.
ConcCalls ==
    {<<"connect_async_with_config",
       [request |-> [valid |-> TRUE, scheme |-> Some("wss"),
                     host |-> Some("example.test"), port |-> None],
        config |-> None, disable_nagle |-> TRUE, connector |-> None,
        path |-> None]>>,
     <<"connect_unix_async",
       [request |-> [valid |-> TRUE, scheme |-> Some("ws"),
                     host |-> Some("other.test"), port |-> Some(9001)],
        config |-> None, disable_nagle |-> FALSE, connector |-> None,
        path |-> Some("/tmp/sock")]>>,
     <<"connect_async",
       [request |-> [valid |-> TRUE, scheme |-> Some("ftp"),
                     host |-> Some("example.test"), port |-> None],
        config |-> None, disable_nagle |-> FALSE, connector |-> None,
        path |-> None]>>}

InitConc ==
    /\ \E f \in [Attempts -> ConcCalls] :
         /\ entry = [a \in Attempts |-> f[a][1]]
         /\ input = [a \in Attempts |-> f[a][2]]
    /\ InitCommon

\* Two calls the code makes equivalent by delegation: an entry point and the
\* call its body (or its twin's body) stands for, with the same arguments.
PairCalls ==
    {<<<<"connect_async_with_config", i>>, <<"connect_async_tls_with_config", i>>>> :
        i \in InputsOf("connect_async_with_config")}
    \cup {<<<<"connect_async", i>>, <<"connect_async_with_config", i>>>> :
        i \in InputsOf("connect_async")}
    \cup {<<<<"connect_unix_async", i>>, <<"connect_unix_async_with_config", i>>>> :
        i \in InputsOf("connect_unix_async")}

\* Attempts 1 and 2 are such a pair; any further attempt is not called.
InitPair ==
    /\ \E p \in PairCalls :
         /\ entry = [a \in Attempts |-> IF a <= 2 THEN p[a][1] ELSE "NotCalled"]
         /\ input = [a \in Attempts |-> IF a <= 2 THEN p[a][2] ELSE NoInput]
    /\ InitCommon

(***************************************************************************)
(* Pure helpers.                                                           *)
(***************************************************************************)
\* Result<T, Error> of a stage.
Ok(v) == [ok |-> TRUE, val |-> Some(v), err |-> "-"]
Err(e) == [ok |-> FALSE, val |-> None, err |-> e]

\* request.into_client_request(): the canonical request, or the conversion's
\* error.
IntoClientRequest(r) ==
    IF r.valid
    THEN Ok([scheme |-> r.scheme, host |-> r.host, port |-> r.port])
    ELSE Err("RequestConstruction")

\* crate::domain(&request): the URI's host, or UrlError::NoHostName.
Domain(request) ==
    IF IsSome(request.host) THEN Ok(Unwrap(request.host)) ELSE Err("Url(NoHostName)")

\* DefaultPort with a fallback arm `_ => Some(80)` instead of `_ => None`.
DefaultPortFallback(scheme) ==
    CASE scheme = Some("wss") -> Some(DefaultWssPort)
      [] OTHER -> Some(DefaultWsPort)

\* The scheme's default port: the closure of or_else (connect.rs:45-49).
DefaultPort(scheme) ==
    CASE scheme = Some("wss") -> Some(DefaultWssPort)
      [] scheme = Some("ws") -> Some(DefaultWsPort)
      [] OTHER -> None

\* PortOption with the scheme's default taking precedence over the explicit
\* port (the two sides of or_else exchanged).
PortOptionSchemeFirst(request) ==
    IF IsSome(DefaultPort(request.scheme))
    THEN DefaultPort(request.scheme)
    ELSE request.port

\* request.uri().port_u16().or_else(..): Option<u16>.
PortOption(request) ==
    IF IsSome(request.port) THEN request.port ELSE DefaultPort(request.scheme)

\* .ok_or(Error::Url(UrlError::UnsupportedUrlScheme))
ResolvedPort(request) ==
    IF IsSome(PortOption(request))
    THEN Ok(Unwrap(PortOption(request)))
    ELSE Err("Url(UnsupportedUrlScheme)")

\* Addr with the plain default port in place of the resolved one.
AddrDefaultPort(domain, port) == <<domain, DefaultWsPort>>

\* format!("{}:{}", domain, port): the pair it renders.
Addr(domain, port) == <<domain, port>>

\* What a dial is called with: a TCP address or a UNIX socket path.
TcpTarget(addr) == [kind |-> "tcp", addr |-> Some(addr), path |-> None]
UnixTarget(path) == [kind |-> "unix", addr |-> None, path |-> Some(path)]

\* The Result an attempt's future resolves to.
Success(ch, tls) == [ok |-> TRUE, err |-> "-", stream |-> Some(ch), tls |-> tls]
Failure(e) == [ok |-> FALSE, err |-> e, stream |-> None, tls |-> FALSE]

\* The bodies with code of their own (connect_async and connect_unix_async
\* only delegate).
NetBodies == {"connect_async_with_config", "connect_async_tls_with_config"}
UnixBodies == {"connect_unix_async_with_config"}

(***************************************************************************)
(* The transport's resources.  A dial creates one ("connecting"); it is    *)
(* "open" once the dial succeeded and "closed" once released.  holder is   *)
(* who owns it: the dial future, the core (the local `socket`), the        *)
(* upgrade/handshake collaborator, or the caller (inside the stream).      *)
(***************************************************************************)
NewChan(a, target) ==
    [owner |-> a, target |-> target, state |-> "connecting", holder |-> "dial",
     drops |-> 0, nodelay |-> FALSE, tls |-> FALSE]

\* Drop of the value that owns resource c.
Released(c) ==
    [chans EXCEPT ![c].state = "closed", ![c].holder = "nobody",
                  ![c].drops = chans[c].drops + 1]

\* The attempt's future resolves: `?` or the final expression returns.
Return(a, res) ==
    /\ pc' = [pc EXCEPT ![a] = IF res.ok THEN "Success" ELSE "Failed"]
    /\ result' = [result EXCEPT ![a] = Some(res)]

Stage(a, evs) == trace' = [trace EXCEPT ![a] = trace[a] \o evs]

(***************************************************************************)
(* The steps of an attempt.                                                *)
(***************************************************************************)
\* ConnectAsync delegating with disable_nagle = true.
ConnectAsyncNagle(a) ==
    /\ pc[a] = "Start"
    /\ fn[a] = "connect_async"
    /\ fn' = [fn EXCEPT ![a] = "connect_async_with_config"]
    /\ local' = [local EXCEPT ![a].config = None, ![a].disable_nagle = TRUE]
    /\ UNCHANGED <<entry, input, pc, trace, calls, result, chans>>

\* connect_async: connect_async_with_config(request, None, false).await
ConnectAsync(a) ==
    /\ pc[a] = "Start"
    /\ fn[a] = "connect_async"
    /\ fn' = [fn EXCEPT ![a] = "connect_async_with_config"]
    /\ local' = [local EXCEPT ![a].config = None, ![a].disable_nagle = FALSE]
    /\ UNCHANGED <<entry, input, pc, trace, calls, result, chans>>

\* connect_unix_async: connect_unix_async_with_config(path, request, None).await
ConnectUnixAsync(a) ==
    /\ pc[a] = "Start"
    /\ fn[a] = "connect_unix_async"
    /\ fn' = [fn EXCEPT ![a] = "connect_unix_async_with_config"]
    /\ local' = [local EXCEPT ![a].config = None]
    /\ UNCHANGED <<entry, input, pc, trace, calls, result, chans>>

\* let request = request.into_client_request()?;
Normalize(a) ==
    /\ pc[a] = "Start"
    /\ fn[a] \in NetBodies \cup UnixBodies
    /\ LET r == IntoClientRequest(input[a].request) IN
         IF r.ok
         THEN /\ local' = [local EXCEPT ![a].request = r.val]
              /\ pc' = [pc EXCEPT ![a] = "Normalized"]
              /\ Stage(a, <<"normalize", "normalize_ok">>)
              /\ UNCHANGED result
         ELSE /\ Return(a, Failure(r.err))
              /\ Stage(a, <<"normalize">>)
              /\ UNCHANGED local
    /\ UNCHANGED <<entry, input, fn, calls, chans>>

\* ExtractDomain with the port looked at first: a request with no port to
\* resolve fails with the scheme error before its host is asked for.
ExtractDomainAfterPort(a) ==
    /\ pc[a] = "Normalized"
    /\ fn[a] \in NetBodies
    /\ LET p == ResolvedPort(Unwrap(local[a].request))
           r == Domain(Unwrap(local[a].request)) IN
         IF ~p.ok
         THEN /\ Return(a, Failure(p.err))
              /\ Stage(a, <<"resolve">>)
              /\ UNCHANGED local
         ELSE IF r.ok
         THEN /\ local' = [local EXCEPT ![a].domain = r.val]
              /\ pc' = [pc EXCEPT ![a] = "DomainOk"]
              /\ Stage(a, <<"domain", "domain_ok">>)
              /\ UNCHANGED result
         ELSE /\ Return(a, Failure(r.err))
              /\ Stage(a, <<"domain">>)
              /\ UNCHANGED local
    /\ UNCHANGED <<entry, input, fn, calls, chans>>

\* let domain = domain(&request)?;
ExtractDomain(a) ==
    /\ pc[a] = "Normalized"
    /\ fn[a] \in NetBodies
    /\ LET r == Domain(Unwrap(local[a].request)) IN
         IF r.ok
         THEN /\ local' = [local EXCEPT ![a].domain = r.val]
              /\ pc' = [pc EXCEPT ![a] = "DomainOk"]
              /\ Stage(a, <<"domain", "domain_ok">>)
              /\ UNCHANGED result
         ELSE /\ Return(a, Failure(r.err))
              /\ Stage(a, <<"domain">>)
              /\ UNCHANGED local
    /\ UNCHANGED <<entry, input, fn, calls, chans>>

\* let port = request.uri().port_u16().or_else(..).ok_or(..)?;
ResolvePort(a) ==
    /\ pc[a] = "DomainOk"
    /\ fn[a] \in NetBodies
    /\ LET r == ResolvedPort(Unwrap(local[a].request)) IN
         IF r.ok
         THEN /\ local' = [local EXCEPT ![a].port = r.val]
              /\ pc' = [pc EXCEPT ![a] = "Resolved"]
              /\ Stage(a, <<"resolve", "resolve_ok">>)
              /\ UNCHANGED result
         ELSE /\ Return(a, Failure(r.err))
              /\ Stage(a, <<"resolve">>)
              /\ UNCHANGED local
    /\ UNCHANGED <<entry, input, fn, calls, chans>>

\* The dial is called with `target` and the attempt suspends on it.
StartDial(a, target) ==
    /\ calls' = [calls EXCEPT ![a].dial = Append(@, target)]
    /\ chans' = Append(chans, NewChan(a, target))
    /\ pc' = [pc EXCEPT ![a] = "Dialing"]
    /\ Stage(a, <<"dial">>)

\* let addr = format!("{}:{}", domain, port);
\* let try_socket = TcpStream::connect(addr).await;
DialTcp(a) ==
    /\ pc[a] = "Resolved"
    /\ fn[a] \in NetBodies
    /\ LET addr == Addr(Unwrap(local[a].domain), Unwrap(local[a].port)) IN
         /\ local' = [local EXCEPT ![a].addr = Some(addr)]
         /\ StartDial(a, TcpTarget(addr))
    /\ UNCHANGED <<entry, input, fn, result>>

\* DialUnix to a fixed socket path instead of the caller's.
DialUnixFixedPath(a) ==
    /\ pc[a] = "Normalized"
    /\ fn[a] \in UnixBodies
    /\ StartDial(a, UnixTarget("/tmp/sock"))
    /\ UNCHANGED <<entry, input, fn, local, result>>

\* DialUnix preceded by the port resolution of the networked bodies: a request
\* that resolves to no port returns UnsupportedUrlScheme instead of dialing.
DialUnixResolvesFirst(a) ==
    /\ pc[a] = "Normalized"
    /\ fn[a] \in UnixBodies
    /\ IF ResolvedPort(Unwrap(local[a].request)).ok
       THEN /\ StartDial(a, UnixTarget(Unwrap(input[a].path)))
            /\ UNCHANGED result
       ELSE /\ Return(a, Failure("Url(UnsupportedUrlScheme)"))
            /\ Stage(a, <<"resolve">>)
            /\ UNCHANGED <<calls, chans>>
    /\ UNCHANGED <<entry, input, fn, local>>

\* let try_socket = UnixStream::connect(path).await;
DialUnix(a) ==
    /\ pc[a] = "Normalized"
    /\ fn[a] \in UnixBodies
    /\ StartDial(a, UnixTarget(Unwrap(input[a].path)))
    /\ UNCHANGED <<entry, input, fn, local, result>>

\* Pending that takes whichever dial is pending, not the attempt's own (a
\* connection slot shared between the calls).
PendingAny(a) ==
    CHOOSE c \in DOMAIN chans : chans[c].state = "connecting"

\* The resource the attempt's pending dial created.
Pending(a) ==
    CHOOSE c \in DOMAIN chans : chans[c].owner = a /\ chans[c].state = "connecting"

\* The dial answers Ok(stream);  let socket = try_socket.map_err(Error::Io)?;
DialOk(a) ==
    /\ pc[a] = "Dialing"
    /\ LET c == Pending(a) IN
         /\ chans' = [chans EXCEPT ![c].state = "open", ![c].holder = "core"]
         /\ local' = [local EXCEPT ![a].socket = Some(c)]
    /\ pc' = [pc EXCEPT ![a] = "Dialed"]
    /\ Stage(a, <<"dial_ok">>)
    /\ UNCHANGED <<entry, input, fn, calls, result>>

\* DialErr with the error swallowed: the attempt goes on with the socket
\* that never connected.
DialErrSwallowed(a) ==
    /\ pc[a] = "Dialing"
    /\ local' = [local EXCEPT ![a].socket = Some(Pending(a))]
    /\ chans' = [chans EXCEPT ![Pending(a)].holder = "core"]
    /\ pc' = [pc EXCEPT ![a] = "Dialed"]
    /\ UNCHANGED <<entry, input, fn, trace, calls, result>>

\* DialErr followed by another try: the failed resource is released and the
\* attempt goes back to the connect.
DialErrRetries(a) ==
    /\ pc[a] = "Dialing"
    /\ chans' = Released(Pending(a))
    /\ pc' = [pc EXCEPT ![a] = IF fn[a] \in NetBodies THEN "Resolved" ELSE "Normalized"]
    /\ UNCHANGED <<entry, input, fn, local, trace, calls, result>>

\* DialErr with the error mapped to the wrong variant (map_err to
\* Error::Url(UnsupportedUrlScheme) instead of Error::Io).
DialErrAsUrl(a) ==
    /\ pc[a] = "Dialing"
    /\ chans' = Released(Pending(a))
    /\ Return(a, Failure("Url(UnsupportedUrlScheme)"))
    /\ Stage(a, <<"dial_err">>)
    /\ UNCHANGED <<entry, input, fn, local, calls>>

\* The dial answers Err(e);  try_socket.map_err(Error::Io)? returns.
DialErr(a) ==
    /\ pc[a] = "Dialing"
    /\ chans' = Released(Pending(a))
    /\ Return(a, Failure("Io"))
    /\ Stage(a, <<"dial_err">>)
    /\ UNCHANGED <<entry, input, fn, local, calls>>

\* socket.set_nodelay(true) answers Ok(()).
TuneOk(a, c) ==
    /\ chans' = [chans EXCEPT ![c].nodelay = TRUE]
    /\ pc' = [pc EXCEPT ![a] = "Ready"]
    /\ Stage(a, <<"tune", "tune_ok">>)
    /\ UNCHANGED result

\* TuneFails with the error ignored: the attempt goes on to the handshake.
TuneFailsIgnored(a, c) ==
    /\ pc' = [pc EXCEPT ![a] = "Ready"]
    /\ Stage(a, <<"tune">>)
    /\ UNCHANGED <<chans, result>>

\* TuneFails with the socket kept alive (forgotten, not dropped) on return.
TuneFailsLeaks(a, c) ==
    /\ Return(a, Failure("Io"))
    /\ Stage(a, <<"tune">>)
    /\ UNCHANGED chans

\* socket.set_nodelay(true) answers Err(e): `?` returns it (From<io::Error>
\* gives Error::Io) and the local `socket` is dropped.
TuneFails(a, c) ==
    /\ chans' = Released(c)
    /\ Return(a, Failure("Io"))
    /\ Stage(a, <<"tune", "tune_err">>)

\* Tune without the `if`: set_nodelay is called whatever disable_nagle is.
TuneAlways(a) ==
    /\ pc[a] = "Dialed"
    /\ fn[a] \in NetBodies
    /\ LET c == Unwrap(local[a].socket) IN
         /\ calls' = [calls EXCEPT ![a].nodelay = Append(@, c)]
         /\ (TuneOk(a, c) \/ TuneFails(a, c))
    /\ UNCHANGED <<entry, input, fn, local>>

\* if disable_nagle { socket.set_nodelay(true)?; }
Tune(a) ==
    /\ pc[a] = "Dialed"
    /\ fn[a] \in NetBodies
    /\ LET c == Unwrap(local[a].socket) IN
         IF local[a].disable_nagle
         THEN /\ calls' = [calls EXCEPT ![a].nodelay = Append(@, c)]
              /\ (TuneOk(a, c) \/ TuneFails(a, c))
         ELSE /\ pc' = [pc EXCEPT ![a] = "Ready"]
              /\ UNCHANGED <<calls, chans, trace, result>>
    /\ UNCHANGED <<entry, input, fn, local>>

\* The connector argument of the body's last line: the parameter in
\* connect_async_tls_with_config, the literal None in the others.
ConnectorArg(a) ==
    IF fn[a] = "connect_async_tls_with_config" THEN local[a].connector ELSE None

\* HandshakeArgs with the configuration dropped (None passed for it).
HandshakeArgsNoConfig(a) ==
    [request |-> Unwrap(local[a].request),
     socket |-> Unwrap(local[a].socket),
     config |-> None,
     connector |-> ConnectorArg(a)]

\* The arguments of client_async_tls_with_config(request, socket, config, ..).
HandshakeArgs(a) ==
    [request |-> Unwrap(local[a].request),
     socket |-> Unwrap(local[a].socket),
     config |-> local[a].config,
     connector |-> ConnectorArg(a)]

\* AtLastLine with the networked bodies reaching the last line straight from
\* the connect, the tuning block skipped.
AtLastLineSkipsTune(a) ==
    pc[a] \in {"Dialed", "Ready"}

\* AtLastLine that only the networked bodies reach: the local body never gets
\* to its last line.
AtLastLineNetOnly(a) ==
    pc[a] = "Ready" /\ fn[a] \in NetBodies

\* The attempt is at the body's last line.
AtLastLine(a) ==
    \/ pc[a] = "Ready" /\ fn[a] \in NetBodies
    \/ pc[a] = "Dialed" /\ fn[a] \in UnixBodies

\* crate::tls::client_async_tls_with_config(request, socket, config, ..).await:
\* the socket moves into the collaborator and the attempt suspends on it.
CallHandshake(a) ==
    /\ AtLastLine(a)
    /\ calls' = [calls EXCEPT ![a].handshake = Append(@, HandshakeArgs(a))]
    /\ chans' = [chans EXCEPT ![Unwrap(local[a].socket)].holder = "collab"]
    /\ local' = [local EXCEPT ![a].socket = None]
    /\ pc' = [pc EXCEPT ![a] = "Handshaking"]
    /\ Stage(a, <<"handshake">>)
    /\ UNCHANGED <<entry, input, fn, result>>

(***************************************************************************)
(* The upgrade/handshake collaborator (crate::tls), as the specification   *)
(* describes it: it encrypts the channel when the request's scheme is the  *)
(* secure one, validating against the request's host, then performs the    *)
(* WebSocket handshake; it fails with a TLS, a handshake or an I/O error.  *)
(***************************************************************************)
\* NeedsTls of a collaborator that never encrypts.
NeedsTlsNever(request) == FALSE

NeedsTls(request) == request.scheme = Some("wss")

CollabOutcomes(request) ==
    {"ok", "handshake_err", "io_err"}
    \cup (IF NeedsTls(request) THEN {"tls_err"} ELSE {})

CollabError(outcome) ==
    CASE outcome = "tls_err" -> "Tls"
      [] outcome = "handshake_err" -> "Handshake"
      [] OTHER -> "Io"

\* The collaborator answers; the body's last expression is the attempt's
\* result.
UpgradeAndHandshake(a) ==
    /\ pc[a] = "Handshaking"
    /\ LET hs == calls[a].handshake[Len(calls[a].handshake)]
           c == hs.socket
           secure == NeedsTls(hs.request)
       IN \E outcome \in CollabOutcomes(hs.request) :
            /\ calls' = [calls EXCEPT ![a].tls =
                           IF secure
                           THEN Append(@, [host |-> hs.request.host, socket |-> c,
                                           connector |-> hs.connector])
                           ELSE @]
            /\ IF outcome = "ok"
               THEN /\ chans' = [chans EXCEPT ![c].holder = "caller", ![c].tls = secure]
                    /\ Return(a, Success(c, secure))
                    /\ Stage(a, (IF secure THEN <<"tls_upgrade", "tls_upgrade_ok">> ELSE <<>>)
                                \o <<"handshake_ok">>)
               ELSE /\ chans' = Released(c)
                    /\ Return(a, Failure(CollabError(outcome)))
                    /\ Stage(a, (IF ~secure THEN <<>>
                                 ELSE IF outcome = "tls_err" THEN <<"tls_upgrade">>
                                 ELSE <<"tls_upgrade", "tls_upgrade_ok">>)
                                \o <<outcome>>)
    /\ UNCHANGED <<entry, input, fn, local>>

(***************************************************************************)
(* The caller drops the attempt's future.  A future can be dropped only    *)
(* while it is not being polled: before its first poll, or suspended at    *)
(* one of its await points.  The drop drops what the future owns there:    *)
(* the pending dial, or the collaborator's future and the socket in it.    *)
(***************************************************************************)
Suspended(a) ==
    \/ pc[a] = "Start" /\ fn[a] = entry[a]
    \/ pc[a] \in {"Dialing", "Handshaking"}

OwnedBy(a) ==
    {c \in DOMAIN chans : /\ chans[c].owner = a
                          /\ chans[c].holder \in {"dial", "core", "collab"}}

DropOwned(a) ==
    [c \in DOMAIN chans |->
        IF c \in OwnedBy(a)
        THEN [chans[c] EXCEPT !.state = "closed", !.holder = "nobody",
                              !.drops = chans[c].drops + 1]
        ELSE chans[c]]

\* Cancel that stops the attempt but keeps what the future owned alive.
CancelLeaks(a) ==
    /\ Suspended(a)
    /\ pc' = [pc EXCEPT ![a] = "Dropped"]
    /\ UNCHANGED <<entry, input, fn, local, trace, calls, result, chans>>

Cancel(a) ==
    /\ Suspended(a)
    /\ chans' = DropOwned(a)
    /\ pc' = [pc EXCEPT ![a] = "Dropped"]
    /\ UNCHANGED <<entry, input, fn, local, trace, calls, result>>

\* One step of attempt a.
Step(a) ==
    \/ ConnectAsync(a)
    \/ ConnectUnixAsync(a)
    \/ Normalize(a)
    \/ ExtractDomain(a)
    \/ ResolvePort(a)
    \/ DialTcp(a)
    \/ DialUnix(a)
    \/ DialOk(a)
    \/ DialErr(a)
    \/ Tune(a)
    \/ CallHandshake(a)
    \/ UpgradeAndHandshake(a)
    \/ Cancel(a)

Next == \E a \in Attempts : Step(a)

Spec == Init /\ [][Next]_vars

SpecConc == InitConc /\ [][Next]_vars

SpecPair == InitPair /\ [][Next]_vars

\* The synchronous code of attempt a: everything between two awaits.
CoreStep(a) ==
    \/ ConnectAsync(a)
    \/ ConnectUnixAsync(a)
    \/ Normalize(a)
    \/ ExtractDomain(a)
    \/ ResolvePort(a)
    \/ DialTcp(a)
    \/ DialUnix(a)
    \/ Tune(a)
    \/ CallHandshake(a)

\* The dial collaborator answers attempt a.
DialAnswers(a) == DialOk(a) \/ DialErr(a)

\* One attempt whose future is polled until it resolves (the code between two
\* awaits runs on), and whose two collaborators answer whenever they are
\* awaited.  The caller may still drop the future; nothing makes it do so.
LiveSpec ==
    /\ Init
    /\ [][Next]_vars
    /\ \A a \in Attempts :
          /\ WF_vars(CoreStep(a))
          /\ WF_vars(DialAnswers(a))
          /\ WF_vars(UpgradeAndHandshake(a))

(***************************************************************************)
(* Properties.                                                             *)
(***************************************************************************)
NetAttempt(a) == entry[a] \in NetEntries
UnixAttempt(a) == entry[a] \in UnixEntries
Terminated(a) == pc[a] \in {"Success", "Failed"}
FailedWith(a, e) == pc[a] = "Failed" /\ Unwrap(result[a]).err = e
\* The caller's request, as given.
Given(a) == input[a].request
\* Stage event ev has happened in attempt a.
Did(a, ev) == \E i \in DOMAIN trace[a] : trace[a][i] = ev
\* The resources attempt a's dials created.
ChansOf(a) == {c \in DOMAIN chans : chans[c].owner = a}
NoIO(a) ==
    /\ calls[a].dial = <<>>
    /\ calls[a].nodelay = <<>>
    /\ calls[a].handshake = <<>>
    /\ calls[a].tls = <<>>
    /\ ChansOf(a) = {}

\* C1: in the networked entry points, once the port is resolved it is the
\* explicit port when the request has one, whatever the scheme; otherwise 443
\* for wss and 80 for ws; and with neither, no port is resolved.
C1_PortResolution ==
    \A a \in Attempts :
        (NetAttempt(a) /\ Did(a, "resolve")) =>
            IF Given(a).port # None
            THEN Did(a, "resolve_ok") /\ local[a].port = Given(a).port
            ELSE IF Given(a).scheme = <<"wss">>
            THEN Did(a, "resolve_ok") /\ local[a].port = <<443>>
            ELSE IF Given(a).scheme = <<"ws">>
            THEN Did(a, "resolve_ok") /\ local[a].port = <<80>>
            ELSE ~Did(a, "resolve_ok") /\ local[a].port = None

\* A wss request with the explicit port 80 resolved to 80, not to 443.
C1_Witness ==
    \E a \in Attempts :
        /\ NetAttempt(a)
        /\ Given(a).scheme = <<"wss">>
        /\ Given(a).port = <<80>>
        /\ Did(a, "resolve_ok")
        /\ local[a].port = <<80>>

\* The request names no recognized scheme and no explicit port.
Unresolvable(a) ==
    /\ Given(a).valid
    /\ Given(a).scheme \notin {<<"ws">>, <<"wss">>}
    /\ Given(a).port = None

\* C2 as stated: a networked attempt whose request has a scheme other than
\* ws/wss (or none) and no explicit port makes no dial and no upgrade/handshake
\* call, and when it ends, it ends in Failed(UnsupportedUrlScheme).
C2_Original ==
    \A a \in Attempts :
        (NetAttempt(a) /\ Unresolvable(a)) =>
            /\ calls[a].dial = <<>>
            /\ calls[a].handshake = <<>>
            /\ pc[a] # "Success"
            /\ pc[a] = "Failed" => FailedWith(a, "Url(UnsupportedUrlScheme)")

\* C2, amended: the same for a request from which a host can be extracted (a
\* request without a host fails in domain() first, with NoHostName).
C2_UnsupportedScheme ==
    \A a \in Attempts :
        (NetAttempt(a) /\ Unresolvable(a) /\ Given(a).host # None) =>
            /\ calls[a].dial = <<>>
            /\ calls[a].handshake = <<>>
            /\ pc[a] # "Success"
            /\ pc[a] = "Failed" => FailedWith(a, "Url(UnsupportedUrlScheme)")

\* An ftp request with a host and no port has failed with UnsupportedUrlScheme,
\* without any I/O.
C2_Witness ==
    \E a \in Attempts :
        /\ NetAttempt(a)
        /\ Given(a).scheme = <<"ftp">>
        /\ Given(a).host # None
        /\ Given(a).port = None
        /\ FailedWith(a, "Url(UnsupportedUrlScheme)")
        /\ NoIO(a)

\* The place of a stage event in the order Normalize, Resolve (host, then
\* port), Dial, Tune, Upgrade/Handshake.
Rank(ev) ==
    CASE ev = "normalize" -> 1
      [] ev = "normalize_ok" -> 2
      [] ev = "domain" -> 3
      [] ev = "domain_ok" -> 4
      [] ev = "resolve" -> 5
      [] ev = "resolve_ok" -> 6
      [] ev = "dial" -> 7
      [] ev = "dial_ok" -> 8
      [] ev = "tune" -> 9
      [] ev = "tune_ok" -> 10
      [] ev = "handshake" -> 11
      [] OTHER -> 12

\* The events of the core's own stages (the collaborator's excluded).
CoreEvents(a) ==
    SelectSeq(trace[a], LAMBDA ev : Rank(ev) < 12)

\* C3: in every attempt of a networked entry point the stages begin in the
\* order Normalize, Resolve, Dial, Tune, Upgrade/Handshake, each at most once
\* and only after the stage before it succeeded; the stages of the local
\* variant (Normalize, Dial, Upgrade/Handshake) keep that order too; and a
\* failed dial is never followed by a call of the upgrade/handshake
\* collaborator.
C3_StageOrder ==
    \A a \in Attempts :
        /\ \A i, j \in DOMAIN CoreEvents(a) :
              i < j => Rank(CoreEvents(a)[i]) < Rank(CoreEvents(a)[j])
        /\ Did(a, "domain") => Did(a, "normalize_ok")
        /\ Did(a, "resolve") => Did(a, "domain_ok")
        /\ Did(a, "dial") => Did(a, "normalize_ok")
        /\ (NetAttempt(a) /\ Did(a, "dial")) => Did(a, "resolve_ok")
        /\ Did(a, "tune") => Did(a, "dial_ok")
        /\ Did(a, "handshake") => Did(a, "dial_ok")
        /\ (Did(a, "handshake") /\ Did(a, "tune")) => Did(a, "tune_ok")
        /\ calls[a].dial # <<>> => Did(a, "dial")
        /\ calls[a].nodelay # <<>> => Did(a, "tune")
        /\ calls[a].handshake # <<>> => Did(a, "handshake")
        /\ ~Did(a, "dial_ok") => calls[a].handshake = <<>>

\* A networked attempt with disable_nagle went through every stage in order
\* and succeeded.
C3_Witness ==
    \E a \in Attempts :
        /\ NetAttempt(a)
        /\ pc[a] = "Success"
        /\ trace[a] = <<"normalize", "normalize_ok", "domain", "domain_ok",
                        "resolve", "resolve_ok", "dial", "dial_ok",
                        "tune", "tune_ok", "handshake", "handshake_ok">>

\* C4: in the networked entry points, when set_nodelay was called (disable_nagle
\* is true and the dial succeeded) and failed, the attempt has ended in
\* Failed with the I/O error and the upgrade/handshake collaborator was not
\* called.
C4_TuneFailure ==
    \A a \in Attempts :
        (NetAttempt(a) /\ Did(a, "tune") /\ ~Did(a, "tune_ok")) =>
            /\ local[a].disable_nagle
            /\ Did(a, "dial_ok")
            /\ FailedWith(a, "Io")
            /\ calls[a].handshake = <<>>
            /\ ~Did(a, "handshake")

\* set_nodelay failed after a successful dial and the attempt failed with Io.
C4_Witness ==
    \E a \in Attempts :
        /\ NetAttempt(a)
        /\ local[a].disable_nagle
        /\ Did(a, "dial_ok")
        /\ Len(calls[a].nodelay) = 1
        /\ ~Did(a, "tune_ok")
        /\ FailedWith(a, "Io")

\* C5: once an attempt is Failed, every transport resource its dial created
\* has been released, once, and nobody holds it.
C5_NoLeakOnFailure ==
    \A a \in Attempts :
        pc[a] = "Failed" =>
            \A c \in ChansOf(a) :
                /\ chans[c].state = "closed"
                /\ chans[c].holder = "nobody"
                /\ chans[c].drops = 1

\* An attempt whose dial had succeeded failed in the tuning, and its channel
\* is closed.
C5_Witness ==
    \E a \in Attempts :
        /\ pc[a] = "Failed"
        /\ Did(a, "dial_ok")
        /\ Did(a, "tune")
        /\ \E c \in ChansOf(a) : chans[c].state = "closed" /\ chans[c].drops = 1

\* The caller dropped attempt a while it was suspended in the dial.
CancelledInDial(a) ==
    pc[a] = "Dropped" /\ Did(a, "dial") /\ ~Did(a, "dial_ok")

\* C6: when an attempt was dropped while suspended in the dial, the transport
\* resource of its dial has been released exactly once, the attempt can take
\* no further step, it has no result, and the upgrade/handshake collaborator
\* was not called for it.
C6_CancelDuringDial ==
    \A a \in Attempts :
        CancelledInDial(a) =>
            /\ Cardinality(ChansOf(a)) = 1
            /\ \A c \in ChansOf(a) :
                  /\ chans[c].state = "closed"
                  /\ chans[c].holder = "nobody"
                  /\ chans[c].drops = 1
            /\ ~ENABLED Step(a)
            /\ result[a] = None
            /\ calls[a].handshake = <<>>

\* An attempt was dropped during its dial and the dial's resource is released.
C6_Witness ==
    \E a \in Attempts :
        /\ CancelledInDial(a)
        /\ Len(calls[a].dial) = 1
        /\ \E c \in ChansOf(a) : chans[c].drops = 1

\* A stage event occurs at most once in the attempt's trace.
NoRepeat(a) ==
    \A i, j \in DOMAIN trace[a] : trace[a][i] = trace[a][j] => i = j

\* C7: in every attempt the dial is invoked at most once (and creates at most
\* one resource), set_nodelay and the upgrade/handshake collaborator are
\* invoked at most once, no stage runs twice, and a Failed attempt can take no
\* further step.
C7_NoRetry ==
    \A a \in Attempts :
        /\ Len(calls[a].dial) <= 1
        /\ Cardinality(ChansOf(a)) <= 1
        /\ Len(calls[a].nodelay) <= 1
        /\ Len(calls[a].handshake) <= 1
        /\ NoRepeat(a)
        /\ pc[a] = "Failed" => ~ENABLED Step(a)

\* An attempt failed in its dial, having dialed once.
C7_Witness ==
    \E a \in Attempts :
        /\ FailedWith(a, "Io")
        /\ Len(calls[a].dial) = 1
        /\ ~Did(a, "dial_ok")

\* C8: in the local-transport variant every dial is called with exactly the
\* caller's path, and a valid request does dial; set_nodelay is never called
\* and no channel is tuned; the upgrade/handshake collaborator is called only
\* after a successful dial, with the channel that dial returned, and it is
\* called in every attempt that terminates after a successful dial.
C8_UnixVariant ==
    \A a \in Attempts :
        UnixAttempt(a) =>
            /\ \A i \in DOMAIN calls[a].dial :
                  calls[a].dial[i] =
                      [kind |-> "unix", addr |-> None, path |-> input[a].path]
            /\ (Given(a).valid /\ (Terminated(a) \/ pc[a] \in {"Dialing", "Dialed", "Handshaking"}))
                  => Len(calls[a].dial) = 1
            /\ calls[a].nodelay = <<>>
            /\ ~Did(a, "tune")
            /\ \A c \in ChansOf(a) : ~chans[c].nodelay
            /\ \A i \in DOMAIN calls[a].handshake :
                  /\ Did(a, "dial_ok")
                  /\ calls[a].handshake[i].socket \in ChansOf(a)
                  /\ chans[calls[a].handshake[i].socket].target.path = input[a].path
            /\ (Terminated(a) /\ Did(a, "dial_ok")) => Len(calls[a].handshake) = 1

\* A local attempt given "/run/ws.sock" dialed that path and succeeded over the
\* channel the dial returned.
C8_Witness ==
    \E a \in Attempts :
        /\ UnixAttempt(a)
        /\ input[a].path = <<"/run/ws.sock">>
        /\ pc[a] = "Success"
        /\ calls[a].dial = <<[kind |-> "unix", addr |-> None, path |-> <<"/run/ws.sock">>]>>
        /\ Unwrap(result[a]).stream = <<calls[a].handshake[1].socket>>

\* C9: the encryption upgrade is invoked only for a wss request, and for a wss
\* request whose upgrade/handshake call has answered it was invoked once, with
\* the request's host; a ws request that succeeds has a plain stream; a wss
\* request that succeeds has an encrypted one.
C9_TlsIffSecure ==
    \A a \in Attempts :
        /\ calls[a].tls # <<>> => Given(a).scheme = <<"wss">>
        /\ (Given(a).scheme = <<"wss">> /\ Did(a, "handshake") /\ Terminated(a)) =>
              /\ Len(calls[a].tls) = 1
              /\ calls[a].tls[1].host = Given(a).host
              /\ calls[a].tls[1].socket = calls[a].handshake[1].socket
        /\ (Given(a).scheme = <<"ws">> /\ pc[a] = "Success") =>
              /\ ~Unwrap(result[a]).tls
              /\ ~chans[Unwrap(Unwrap(result[a]).stream)].tls
        /\ (Given(a).scheme = <<"wss">> /\ pc[a] = "Success") =>
              /\ Unwrap(result[a]).tls
              /\ chans[Unwrap(Unwrap(result[a]).stream)].tls

\* A wss request to example.test succeeded over a channel encrypted for
\* example.test.
C9_Witness ==
    \E a \in Attempts :
        /\ Given(a).scheme = <<"wss">>
        /\ Given(a).host = <<"example.test">>
        /\ pc[a] = "Success"
        /\ Len(calls[a].tls) = 1
        /\ calls[a].tls[1].host = <<"example.test">>
        /\ Unwrap(result[a]).tls

\* C10: an attempt that ended in the TLS or the handshake error had dialed
\* successfully, had tuned successfully when disable_nagle asked for it, and
\* had called the collaborator; an attempt that ended in the request
\* conversion's error, the missing host error or the unsupported scheme error
\* made no dial, no set_nodelay and no upgrade/handshake call.
C10_ErrorStages ==
    \A a \in Attempts :
        pc[a] = "Failed" =>
            /\ Unwrap(result[a]).err \in {"Tls", "Handshake"} =>
                  /\ Did(a, "dial_ok")
                  /\ Len(calls[a].dial) = 1
                  /\ (NetAttempt(a) /\ local[a].disable_nagle) => Did(a, "tune_ok")
                  /\ Len(calls[a].handshake) = 1
            /\ Unwrap(result[a]).err \in
                  {"RequestConstruction", "Url(NoHostName)", "Url(UnsupportedUrlScheme)"} =>
                  NoIO(a)

\* A networked attempt with disable_nagle ended in the TLS error, after a
\* successful dial and a successful set_nodelay.
C10_Witness ==
    \E a \in Attempts :
        /\ NetAttempt(a)
        /\ local[a].disable_nagle
        /\ FailedWith(a, "Tls")
        /\ Did(a, "dial_ok")
        /\ Did(a, "tune_ok")

\* The error kind that names a failed stage, by the stage's failure event (a
\* pure stage that failed leaves its begin event last).
ErrorOf(ev) ==
    CASE ev = "normalize" -> "RequestConstruction"
      [] ev = "domain" -> "Url(NoHostName)"
      [] ev = "resolve" -> "Url(UnsupportedUrlScheme)"
      [] ev = "dial_err" -> "Io"
      [] ev = "tune_err" -> "Io"
      [] ev = "tls_err" -> "Tls"
      [] ev = "handshake_err" -> "Handshake"
      [] ev = "io_err" -> "Io"
      [] OTHER -> "-"

LastEvent(a) == trace[a][Len(trace[a])]

\* C11: an attempt has a result exactly when it is Success or Failed; Success
\* carries the stream over the attempt's own open channel and no error;
\* Failed carries no stream and the one error kind of the stage that failed,
\* and leaves nothing with the caller; a terminated attempt takes no further
\* step.
C11_OneOutcome ==
    \A a \in Attempts :
        /\ (result[a] # None) <=> Terminated(a)
        /\ pc[a] = "Success" =>
              /\ Unwrap(result[a]).ok
              /\ Unwrap(result[a]).err = "-"
              /\ Unwrap(result[a]).stream # None
              /\ Unwrap(Unwrap(result[a]).stream) \in ChansOf(a)
              /\ chans[Unwrap(Unwrap(result[a]).stream)].state = "open"
              /\ chans[Unwrap(Unwrap(result[a]).stream)].holder = "caller"
              /\ LastEvent(a) = "handshake_ok"
        /\ pc[a] = "Failed" =>
              /\ ~Unwrap(result[a]).ok
              /\ Unwrap(result[a]).stream = None
              /\ Unwrap(result[a]).err # "-"
              /\ Unwrap(result[a]).err = ErrorOf(LastEvent(a))
              /\ \A c \in ChansOf(a) : chans[c].holder # "caller"
        /\ Terminated(a) => ~ENABLED Step(a)

\* An attempt ended in Success with its stream; no step of it is enabled.
C11_Witness ==
    \E a \in Attempts :
        /\ pc[a] = "Success"
        /\ Unwrap(result[a]).ok
        /\ Unwrap(Unwrap(result[a]).stream) \in ChansOf(a)
        /\ ~ENABLED Step(a)

\* The attempt has gone past the conversion of its request.
PastNormalize(a) ==
    \/ Terminated(a)
    \/ pc[a] \in {"Dialing", "Dialed", "Ready", "Handshaking"}
    \/ pc[a] = "Dropped" /\ Did(a, "normalize_ok")

\* C12 as stated: a local-transport attempt whose request has no recognized
\* scheme and no explicit port never dials, dials only after a successful
\* Resolve stage, and when it ends, it ends in Failed(UnsupportedUrlScheme).
C12_Original ==
    \A a \in Attempts :
        (UnixAttempt(a) /\ Unresolvable(a)) =>
            /\ calls[a].dial = <<>>
            /\ Did(a, "dial") => Did(a, "resolve_ok")
            /\ pc[a] # "Success"
            /\ pc[a] = "Failed" => FailedWith(a, "Url(UnsupportedUrlScheme)")

\* C12, amended: the local-transport variant has no Resolve stage: no host is
\* extracted and no port resolved; an attempt whose request converts, even
\* one without a recognized scheme and without a port, goes from the
\* conversion straight to the dial of the caller's path, so it never fails
\* before the dial.
C12_LocalNoResolve ==
    \A a \in Attempts :
        (UnixAttempt(a) /\ Given(a).valid) =>
            /\ ~Did(a, "domain")
            /\ ~Did(a, "resolve")
            /\ local[a].domain = None
            /\ local[a].port = None
            /\ pc[a] = "Failed" => Len(calls[a].dial) = 1
            /\ PastNormalize(a) =>
                  calls[a].dial = <<[kind |-> "unix", addr |-> None, path |-> input[a].path]>>

\* A local attempt with an ftp request and no port dialed its path and
\* succeeded.
C12_Witness ==
    \E a \in Attempts :
        /\ UnixAttempt(a)
        /\ Given(a).scheme = <<"ftp">>
        /\ Given(a).port = None
        /\ Len(calls[a].dial) = 1
        /\ ~Did(a, "resolve")
        /\ pc[a] = "Success"

\* The answers attempt a has received from its collaborators so far.
Answers(a) ==
    [dial |-> IF Did(a, "dial_ok") THEN "ok"
              ELSE IF Did(a, "dial_err") THEN "err" ELSE "none",
     tune |-> IF Did(a, "tune_ok") THEN "ok"
              ELSE IF Did(a, "tune_err") THEN "err" ELSE "none",
     collab |-> IF Did(a, "handshake_ok") THEN "ok"
                ELSE IF Did(a, "tls_err") THEN "tls_err"
                ELSE IF Did(a, "handshake_err") THEN "handshake_err"
                ELSE IF Did(a, "io_err") THEN "io_err" ELSE "none"]

\* The outcome <<ok, error, encrypted>> of entry point e called alone with
\* arguments i, when its collaborators answer ans.
Alone(e, i, ans) ==
    LET r == i.request
        net == e \in NetEntries
        nagle == e # "connect_async" /\ i.disable_nagle
    IN  IF ~r.valid THEN <<FALSE, "RequestConstruction", FALSE>>
        ELSE IF net /\ r.host = <<>> THEN <<FALSE, "Url(NoHostName)", FALSE>>
        ELSE IF net /\ r.port = <<>> /\ r.scheme \notin {<<"ws">>, <<"wss">>}
             THEN <<FALSE, "Url(UnsupportedUrlScheme)", FALSE>>
        ELSE IF ans.dial = "err" THEN <<FALSE, "Io", FALSE>>
        ELSE IF net /\ nagle /\ ans.tune = "err" THEN <<FALSE, "Io", FALSE>>
        ELSE IF ans.collab = "ok" THEN <<TRUE, "-", r.scheme = <<"wss">>>>
        ELSE IF ans.collab = "tls_err" THEN <<FALSE, "Tls", FALSE>>
        ELSE IF ans.collab = "handshake_err" THEN <<FALSE, "Handshake", FALSE>>
        ELSE <<FALSE, "Io", FALSE>>

\* The transport resources attempt a has in hand or has passed on.
UsedBy(a) ==
    {local[a].socket[k] : k \in DOMAIN local[a].socket}
    \cup {calls[a].nodelay[k] : k \in DOMAIN calls[a].nodelay}
    \cup {calls[a].handshake[k].socket : k \in DOMAIN calls[a].handshake}
    \cup (IF result[a] # None
          THEN {Unwrap(result[a]).stream[k] : k \in DOMAIN Unwrap(result[a]).stream}
          ELSE {})

\* C13: with several attempts interleaved, every resource an attempt uses is
\* one its own dial created, no resource is used by two attempts, each dial
\* created its own resource, and the outcome of every terminated attempt is
\* the one its entry point has alone with the answers the attempt received.
C13_Independent ==
    /\ \A a \in Attempts :
          /\ UsedBy(a) \subseteq ChansOf(a)
          /\ Cardinality(ChansOf(a)) = Len(calls[a].dial)
          /\ Terminated(a) =>
                <<Unwrap(result[a]).ok, Unwrap(result[a]).err, Unwrap(result[a]).tls>>
                    = Alone(entry[a], input[a], Answers(a))
    /\ \A a, b \in Attempts : a # b => UsedBy(a) \cap UsedBy(b) = {}

\* Two attempts were under way at once, each holding its own open channel,
\* and one of them has succeeded.
C13_Witness ==
    \E a, b \in Attempts :
        /\ a # b
        /\ pc[a] = "Success"
        /\ pc[b] = "Handshaking"
        /\ UsedBy(a) # {}
        /\ UsedBy(b) # {}
        /\ Unwrap(Unwrap(result[a]).stream) # calls[b].handshake[1].socket

\* The caller asked for set_nodelay: only the two entry points with a
\* disable_nagle parameter can.
NagleAsked(a) ==
    /\ entry[a] \in {"connect_async_with_config", "connect_async_tls_with_config"}
    /\ input[a].disable_nagle

\* The place of stage event ev in attempt a's trace.
Pos(a, ev) == CHOOSE i \in DOMAIN trace[a] : trace[a][i] = ev

\* C14: in the networked entry points set_nodelay is called only when
\* disable_nagle is true and the dial succeeded, and then it is called, once,
\* before the attempt goes on; it comes after the successful connect and
\* before the collaborator call, on the channel that is handed to the
\* collaborator; without disable_nagle that channel is untuned; connect_async
\* never calls it.
C14_TuneIff ==
    \A a \in Attempts :
        NetAttempt(a) =>
            /\ calls[a].nodelay # <<>> => NagleAsked(a) /\ Did(a, "dial_ok")
            /\ (NagleAsked(a) /\ Did(a, "dial_ok") /\ pc[a] # "Dialed")
                  => Len(calls[a].nodelay) = 1
            /\ \A k \in DOMAIN calls[a].nodelay :
                  /\ calls[a].nodelay[k] \in ChansOf(a)
                  /\ Pos(a, "dial_ok") < Pos(a, "tune")
            /\ (calls[a].handshake # <<>> /\ NagleAsked(a)) =>
                  /\ calls[a].nodelay = <<calls[a].handshake[1].socket>>
                  /\ chans[calls[a].handshake[1].socket].nodelay
                  /\ Did(a, "tune_ok")
                  /\ Pos(a, "tune_ok") < Pos(a, "handshake")
            /\ (calls[a].handshake # <<>> /\ ~NagleAsked(a)) =>
                  ~chans[calls[a].handshake[1].socket].nodelay
            /\ entry[a] = "connect_async" =>
                  calls[a].nodelay = <<>> /\ ~Did(a, "tune")

\* A networked attempt with disable_nagle is suspended in the collaborator
\* call, which got the channel set_nodelay was applied to.
C14_Witness ==
    \E a \in Attempts :
        /\ NagleAsked(a)
        /\ pc[a] = "Handshaking"
        /\ calls[a].nodelay = <<calls[a].handshake[1].socket>>
        /\ chans[calls[a].nodelay[1]].nodelay

\* The port of the address a request is dialed at.
ExpectedPort(r) ==
    IF r.port # <<>> THEN r.port[1]
    ELSE IF r.scheme = <<"wss">> THEN 443 ELSE 80

\* The request has a host and an explicit port but no recognized scheme.
PortOnly(a) ==
    /\ Given(a).valid
    /\ Given(a).host # <<>>
    /\ Given(a).port # <<>>
    /\ Given(a).scheme \notin {<<"ws">>, <<"wss">>}

\* C15: in the networked entry points every dial is made to the address of the
\* request's host and its resolved port; a request with an explicit port and
\* no recognized scheme resolves to that port, is dialed, and so never fails
\* before the dial.
C15_DialAddress ==
    \A a \in Attempts :
        NetAttempt(a) =>
            /\ \A k \in DOMAIN calls[a].dial :
                  calls[a].dial[k] =
                      [kind |-> "tcp",
                       addr |-> << <<Given(a).host[1], ExpectedPort(Given(a))>> >>,
                       path |-> <<>>]
            /\ PortOnly(a) =>
                  /\ Did(a, "resolve") =>
                        Did(a, "resolve_ok") /\ local[a].port = Given(a).port
                  /\ pc[a] = "Failed" => Len(calls[a].dial) = 1
                  /\ PastNormalize(a) => Len(calls[a].dial) = 1

\* An ftp request with the explicit port 9001 was dialed at other.test:9001.
C15_Witness ==
    \E a \in Attempts :
        /\ NetAttempt(a)
        /\ Given(a).scheme = <<"ftp">>
        /\ Given(a).host = <<"other.test">>
        /\ Given(a).port = <<9001>>
        /\ calls[a].dial = <<[kind |-> "tcp", addr |-> << <<"other.test", 9001>> >>,
                              path |-> <<>>]>>

\* C16: every collaborator call gets the converted request, the caller's
\* configuration (None from connect_async and connect_unix_async) and the
\* caller's connector (None from every entry point but
\* connect_async_tls_with_config), with the attempt's own channel; and once
\* the collaborator has answered, the attempt has terminated with exactly
\* that answer: its stream over that channel, or its error.
C16_Forwarding ==
    \A a \in Attempts :
        /\ \A k \in DOMAIN calls[a].handshake :
              /\ calls[a].handshake[k].request =
                    [scheme |-> Given(a).scheme, host |-> Given(a).host,
                     port |-> Given(a).port]
              /\ calls[a].handshake[k].config =
                    (IF entry[a] \in {"connect_async", "connect_unix_async"}
                     THEN <<>> ELSE input[a].config)
              /\ calls[a].handshake[k].connector =
                    (IF entry[a] = "connect_async_tls_with_config"
                     THEN input[a].connector ELSE <<>>)
              /\ calls[a].handshake[k].socket \in ChansOf(a)
        /\ Answers(a).collab = "ok" =>
              /\ pc[a] = "Success"
              /\ Unwrap(result[a]).stream = <<calls[a].handshake[1].socket>>
        /\ Answers(a).collab = "tls_err" => FailedWith(a, "Tls")
        /\ Answers(a).collab = "handshake_err" => FailedWith(a, "Handshake")
        /\ Answers(a).collab = "io_err" => FailedWith(a, "Io")
        /\ (Terminated(a) /\ calls[a].handshake # <<>>) => Answers(a).collab # "none"

\* connect_async_tls_with_config passed its configuration and its connector
\* on, and the collaborator's handshake error is the attempt's result.
C16_Witness ==
    \E a \in Attempts :
        /\ entry[a] = "connect_async_tls_with_config"
        /\ input[a].config = <<"config">>
        /\ input[a].connector = <<"connector">>
        /\ calls[a].handshake # <<>>
        /\ calls[a].handshake[1].config = <<"config">>
        /\ calls[a].handshake[1].connector = <<"connector">>
        /\ FailedWith(a, "Handshake")

\* The collaborator calls of attempt a with their arguments, a channel being
\* named by the address or path it was dialed at (two attempts never share a
\* channel).
CallsView(a) ==
    [dial |-> calls[a].dial,
     nodelay |-> [k \in DOMAIN calls[a].nodelay |-> chans[calls[a].nodelay[k]].target],
     handshake |-> [k \in DOMAIN calls[a].handshake |->
                      [calls[a].handshake[k] EXCEPT
                          !.socket = chans[calls[a].handshake[k].socket].target]],
     tls |-> [k \in DOMAIN calls[a].tls |->
                [calls[a].tls[k] EXCEPT !.socket = chans[calls[a].tls[k].socket].target]]]

\* The outcome of attempt a, its stream named by what it was dialed at.
OutcomeView(a) ==
    IF result[a] = <<>> THEN <<>>
    ELSE LET res == result[a][1] IN
         <<[res EXCEPT !.stream =
               [k \in DOMAIN res.stream |-> chans[res.stream[k]].target]]>>

\* The answers attempts a and b received do not differ.
SameAnswers(a, b) ==
    /\ Answers(a).dial = Answers(b).dial \/ "none" \in {Answers(a).dial, Answers(b).dial}
    /\ Answers(a).tune = Answers(b).tune \/ "none" \in {Answers(a).tune, Answers(b).tune}
    /\ Answers(a).collab = Answers(b).collab
          \/ "none" \in {Answers(a).collab, Answers(b).collab}

\* C17: connect_async_with_config(r, c, n) beside
\* connect_async_tls_with_config(r, c, n, None), connect_async(r) beside
\* connect_async_with_config(r, None, false), and connect_unix_async(p, r)
\* beside connect_unix_async_with_config(p, r, None): when the two have
\* terminated on answers that do not differ, and whenever the two have passed
\* the same stages, they have made the same collaborator calls with the same
\* arguments and have the same outcome.
C17_Equivalent ==
    /\ (Terminated(1) /\ Terminated(2) /\ SameAnswers(1, 2)) =>
          /\ CallsView(1) = CallsView(2)
          /\ OutcomeView(1) = OutcomeView(2)
          /\ trace[1] = trace[2]
    /\ trace[1] = trace[2] =>
          /\ CallsView(1) = CallsView(2)
          /\ OutcomeView(1) = OutcomeView(2)

\* connect_async and connect_async_with_config(r, None, false) have both
\* succeeded, each over its own channel, after the same calls.
C17_Witness ==
    /\ entry[1] = "connect_async"
    /\ entry[2] = "connect_async_with_config"
    /\ pc[1] = "Success"
    /\ pc[2] = "Success"
    /\ Len(calls[1].handshake) = 1
    /\ CallsView(1) = CallsView(2)
    /\ Unwrap(result[1]).stream # Unwrap(result[2]).stream

\* Attempt a is at an await on a collaborator.
AtAwait(a) == pc[a] \in {"Dialing", "Handshaking"}

\* Attempt a is under way: called, not resolved, not dropped.
Running(a) == pc[a] \notin {"NotCalled", "Success", "Failed", "Dropped"}

\* C18: an attempt under way that is not awaiting the dial or the
\* upgrade/handshake call can always go on by itself, and one that is awaiting
\* either cannot; so when both collaborators answer whenever awaited, every
\* attempt comes to Success or Failed unless the caller drops it; and only the
\* dial's answer (or the caller's drop) takes an attempt out of its dial, no
\* timeout of the core does.
C18_Suspension ==
    /\ [](\A a \in Attempts :
            /\ (Running(a) /\ ~AtAwait(a)) => ENABLED CoreStep(a)
            /\ AtAwait(a) => ~ENABLED CoreStep(a)
            /\ pc[a] = "Dialing" => ENABLED DialAnswers(a)
            /\ pc[a] = "Handshaking" => ENABLED UpgradeAndHandshake(a))
    /\ \A a \in Attempts : Running(a) ~> ~Running(a)
    /\ [][\A a \in Attempts :
            (pc[a] = "Dialing" /\ pc'[a] # "Dialing") =>
                \/ pc'[a] = "Dropped"
                \/ \E i \in DOMAIN trace'[a] : trace'[a][i] \in {"dial_ok", "dial_err"}]_vars

\* An attempt has resolved after awaiting the dial and the upgrade/handshake
\* call, both of which answered.
C18_Witness ==
    \E a \in Attempts :
        /\ Terminated(a)
        /\ Did(a, "dial_ok")
        /\ Did(a, "handshake")
        /\ Answers(a).collab # "none"

\* The request converts but has no host to extract.
Hostless(a) == Given(a).valid /\ Given(a).host = <<>>

\* C19: in the networked entry points the port is resolved only after the host
\* was extracted, so an attempt whose request has no host never comes to the
\* port resolution, makes no collaborator call, and when it fails it fails
\* with the host-extraction error, not with UnsupportedUrlScheme, though its
\* scheme is unrecognized and it has no port; the local variant extracts no
\* host, and dials for such a request.
C19_HostFirst ==
    \A a \in Attempts :
        /\ (NetAttempt(a) /\ Did(a, "resolve")) =>
              /\ Did(a, "domain_ok")
              /\ Pos(a, "domain_ok") < Pos(a, "resolve")
        /\ (NetAttempt(a) /\ Hostless(a)) =>
              /\ NoIO(a)
              /\ ~Did(a, "resolve")
              /\ pc[a] # "Success"
              /\ pc[a] = "Failed" => FailedWith(a, "Url(NoHostName)")
              /\ Did(a, "domain") => FailedWith(a, "Url(NoHostName)")
        /\ UnixAttempt(a) =>
              /\ ~Did(a, "domain")
              /\ local[a].domain = <<>>
              /\ (Hostless(a) /\ PastNormalize(a)) => Len(calls[a].dial) = 1

\* A networked attempt whose request has no host, no recognized scheme and no
\* port has failed with the host-extraction error.
C19_Witness ==
    \E a \in Attempts :
        /\ NetAttempt(a)
        /\ Given(a) = NoHostInput
        /\ PortOption(Given(a)) = <<>>
        /\ FailedWith(a, "Url(NoHostName)")
        /\ NoIO(a)

====
